---- MODULE Spec2Model ----
(***************************************************************************)
(* Model of server.py: an HTTPS static file server with four endpoints    *)
(* that list, probe, save and delete JSON prompt files in one directory.  *)
(*                                                                         *)
(* Strings are sequences of one-character strings, so that basename, the  *)
(* character whitelist, the ".json" suffix test and path resolution are   *)
(* computed character by character, as the code computes them.            *)
(* The file system is the POSIX one (os.path is posixpath).               *)
(***************************************************************************)
EXTENDS Integers, Sequences, FiniteSets, TLC

\* Longest generated part of a submitted filename (before an optional ".json").
MaxLen == 1
\* Most files the model lets the prompts directory hold at once.
MaxFiles == 1

----------------------------------------------------------------------------
(* Characters and strings *)

Lower ==
    {"a","b","c","d","e","f","g","h","i","j","k","l","m",
     "n","o","p","q","r","s","t","u","v","w","x","y","z"}

Upper ==
    {"A","B","C","D","E","F","G","H","I","J","K","L","M",
     "N","O","P","Q","R","S","T","U","V","W","X","Y","Z"}

Digit ==
    <<"0","1","2","3","4","5","6","7","8","9">>

\* The characters the regular expression [^a-zA-Z0-9_.-] does not match.
SafeChars ==
    Lower \cup Upper \cup {Digit[i] : i \in 1..10} \cup {"_", ".", "-"}

Slash == "/"

DotJson == <<".","j","s","o","n">>

Dot == <<".">>

DotDot == <<".",".">>

\* str.endswith
EndsWith(s, suffix) ==
    /\ Len(s) >= Len(suffix)
    /\ SubSeq(s, Len(s) - Len(suffix) + 1, Len(s)) = suffix

\* posixpath.basename: everything after the last "/".
Basename(s) ==
    LET slashes == {i \in 1..Len(s) : s[i] = Slash}
        last == IF slashes = {} THEN 0
                ELSE CHOOSE i \in slashes : \A j \in slashes : j <= i
    IN  SubSeq(s, last + 1, Len(s))

\* re.sub(r'[^a-zA-Z0-9_.-]', '', s)
StripUnsafe(s) ==
    LET keep(c) == c \in SafeChars
    IN  SelectSeq(s, keep)

\* A variant that only removes "/": a bug that forgets the whitelist.
SafeFilenameNoWhitelist(filename) ==
    Basename(filename)

\* safe_filename, as handle_save_prompt and handle_delete_prompt compute it.
SafeFilename(filename) ==
    StripUnsafe(Basename(filename))

\* A save that uses the submitted filename as it came.
SaveTargetNameRaw(filename) ==
    filename

\* safe_filename of handle_save_prompt.
SaveTargetName(filename) ==
    SafeFilename(filename)

\* A delete that uses the submitted filename as it came.
DeleteTargetNameRaw(filename) ==
    filename

\* safe_filename of handle_delete_prompt.
DeleteTargetName(filename) ==
    SafeFilename(filename)

\* A suffix test that accepts every name.
HasJsonSuffixAlways(name) ==
    TRUE

\* safe_filename.endswith('.json')
HasJsonSuffix(name) ==
    EndsWith(name, DotJson)

\* posixpath.join(a, b) for two parts.
Join(a, b) ==
    IF b # <<>> /\ b[1] = Slash THEN b
    ELSE IF a = <<>> \/ a[Len(a)] = Slash THEN a \o b
    ELSE a \o <<Slash>> \o b

RECURSIVE Split(_)
\* s.split("/"): the components of a path string, empty ones included.
Split(s) ==
    LET slashes == {i \in 1..Len(s) : s[i] = Slash}
    IN  IF slashes = {} THEN <<s>>
        ELSE LET first == CHOOSE i \in slashes : \A j \in slashes : i <= j
             IN  <<SubSeq(s, 1, first - 1)>> \o Split(SubSeq(s, first + 1, Len(s)))

RECURSIVE Digits(_)
\* The decimal digits of a natural number.
Digits(n) ==
    IF n < 10 THEN <<Digit[n + 1]>>
    ELSE Digits(n \div 10) \o <<Digit[(n % 10) + 1]>>

\* json.dump(content, f, indent=4) of an integer: its decimal digits.
JsonDump(content) ==
    Digits(content)

----------------------------------------------------------------------------
(* The file system *)

\* Nodes are absolute paths as sequences of components; the root is <<>>.
Root == <<>>

\* os.getcwd() of the process (one representative working directory).
SERVE_DIR == <<"/","s","r","v">>

ServeNode == << <<"s","r","v">> >>

AssetsNode == ServeNode \o << <<"a","s","s","e","t","s">> >>

\* os.path.join(SERVE_DIR, "logs")
LogNode == ServeNode \o << <<"l","o","g","s">> >>

\* os.path.join(SERVE_DIR, "assets", "prompts")
PROMPTS_DIR ==
    Join(Join(SERVE_DIR, <<"a","s","s","e","t","s">>), <<"p","r","o","m","p","t","s">>)

PromptsNode == AssetsNode \o << <<"p","r","o","m","p","t","s">> >>

\* The directories that exist: os.makedirs creates the last two at start-up.
Dirs == {Root, ServeNode, AssetsNode, LogNode, PromptsNode}

\* The result of a failed lookup (ENOENT or ENOTDIR).
NoEnt == << <<"ENOENT">> >>

Parent(node) ==
    IF node = Root THEN Root ELSE SubSeq(node, 1, Len(node) - 1)

\* One step of path resolution from directory cur.
Step(cur, c) ==
    IF c = <<>> \/ c = Dot THEN cur
    ELSE IF c = DotDot THEN Parent(cur)
    ELSE cur \o <<c>>

RECURSIVE Walk(_, _, _)
\* The kernel's path resolution: the node the components lead to from cur in
\* file system files, or NoEnt.
Walk(files, cur, comps) ==
    IF comps = <<>> THEN cur
    ELSE IF cur \notin Dirs THEN NoEnt
    ELSE LET nxt == Step(cur, Head(comps))
         IN  IF nxt \in Dirs \cup DOMAIN files
             THEN Walk(files, nxt, Tail(comps))
             ELSE NoEnt

\* The components of PROMPTS_DIR, split once.
PromptsComps == Split(PROMPTS_DIR)

\* Split(os.path.join(PROMPTS_DIR, name)): the components of the path the
\* handlers hand to the operating system.
FilePathComps(name) ==
    IF name # <<>> /\ name[1] = Slash THEN Split(name)
    ELSE PromptsComps \o Split(name)

\* The node the components of an absolute path name, or NoEnt.
Lookup(files, comps) ==
    Walk(files, Root, comps)

\* os.path.exists of the path with these components
PathExists(files, comps) ==
    Lookup(files, comps) # NoEnt

\* The node open(path, 'w') creates or truncates, or NoEnt when open raises
\* (a missing parent, a parent that is a file, a target that is a directory).
OpenTarget(files, comps) ==
    LET dir == Walk(files, Root, SubSeq(comps, 1, Len(comps) - 1))
        node == IF dir = NoEnt \/ dir \notin Dirs THEN NoEnt
                ELSE Step(dir, comps[Len(comps)])
    IN  IF node \in Dirs THEN NoEnt ELSE node

\* os.listdir(PROMPTS_DIR): the names directly inside the prompts directory.
ListDir(files) ==
    {node[Len(node)] : node \in {n \in DOMAIN files \cup Dirs :
                                   n # Root /\ Parent(n) = PromptsNode}}

----------------------------------------------------------------------------
(* Requests *)

\* The characters generated filenames are made of: the separator, the dot and
\* a character outside the whitelist. Letters come with the example names.
GenChars == {Slash, ".", " "}

SeqsUpTo(S, n) ==
    UNION {[1..k -> S] : k \in 0..n}

\* "../../etc/passwd"
EtcPasswd ==
    <<".",".","/",".",".","/","e","t","c","/","p","a","s","s","w","d">>

\* "notes"
Notes == <<"n","o","t","e","s">>

\* "a b!@#.json"
SpecialsJson == <<"a"," ","b","!","@","#">> \o DotJson

\* "./a.json"
DotSlashAJson == <<".","/","a">> \o DotJson

\* "a.json"
AJson == <<"a">> \o DotJson

\* "ab.json"
AbJson == <<"a","b">> \o DotJson

ExampleFilenames ==
    {EtcPasswd, DotDot, Notes, SpecialsJson, DotSlashAJson, AJson}

\* The filename strings a client submits.
Filenames ==
    {b \o t : b \in SeqsUpTo(GenChars, MaxLen), t \in {<<>>, DotJson}}
        \cup ExampleFilenames

\* A key that is absent from the body or the query (Python's None).
NoName == <<"None">>

NoContent == -1

\* The "content" values a client submits: 0 is falsy, the others are truthy
\* and serialize to payloads of different lengths.
ContentValues == {0, 7, 12}

\* not filename
Falsy(filename) ==
    filename = NoName \/ filename = <<>>

\* not content
FalsyContent(content) ==
    content = NoContent \/ content = 0

Req(method, path, wellformed, filename, content) ==
    [method |-> method, path |-> path, wellformed |-> wellformed,
     filename |-> filename, content |-> content]

\* wellformed: the body has a Content-Length and parses to a JSON object.
\* filename: the body's "filename" (POST) or the query's "filename" (GET).
OptionsRequests ==
    {Req("OPTIONS", p, TRUE, NoName, NoContent) : p \in {"/save-prompt", "/index.html"}}

StaticRequests ==
    {Req("GET", p, TRUE, NoName, NoContent) : p \in {"/index.html", "/missing.html"}}

ListRequests ==
    {Req("GET", "/list-prompts", TRUE, NoName, NoContent)}

CheckRequests ==
    {Req("GET", "/check-prompt-exists", TRUE, f, NoContent) : f \in Filenames \cup {NoName}}

SaveRequests ==
    {Req("POST", "/save-prompt", TRUE, f, c) :
        f \in Filenames \cup {NoName}, c \in ContentValues \cup {NoContent}}
    \cup {Req("POST", "/save-prompt", FALSE, NoName, NoContent)}

DeleteRequests ==
    {Req("POST", "/delete-prompt", TRUE, f, NoContent) : f \in Filenames \cup {NoName}}
    \cup {Req("POST", "/delete-prompt", FALSE, NoName, NoContent)}

OtherPostRequests ==
    {Req("POST", "/other", TRUE, NoName, NoContent)}

NoRequest == Req("NONE", "", TRUE, NoName, NoContent)

\* The files the static handler finds under SERVE_DIR.
StaticFiles == {"/index.html"}

----------------------------------------------------------------------------
(* Responses *)

\* send_response(status), before the headers end.
SendResponse(status) ==
    [status |-> status, cors |-> FALSE, body |-> "", prompts |-> {}, exists |-> FALSE]

\* An end_headers that forgets the CORS headers.
EndHeadersNoCors(r) ==
    r

\* CORSRequestHandler.end_headers: adds Access-Control-Allow-Origin: *.
EndHeaders(r) ==
    [r EXCEPT !.cors = TRUE]

\* BaseHTTPRequestHandler.send_error: a response with an error page as body.
SendError(status, message) ==
    [EndHeaders(SendResponse(status)) EXCEPT !.body = message]

\* A 200 response with a body (a JSON document or the bytes of a file).
SendBody(message) ==
    [EndHeaders(SendResponse(200)) EXCEPT !.body = message]

NoResponse == SendResponse(0)

NoPath == <<"None">>

Exchange(req, filepath, resp) ==
    [req |-> req, filepath |-> filepath, resp |-> resp]

----------------------------------------------------------------------------
(* State *)

VARIABLES
    fs,        \* the files on disk: node -> content (a string)
    handlers,  \* the save handlers between open() and the end of the with block
    last       \* the request most recently dispatched, the path its handler
               \* built, and its response (NoResponse until it is sent)

vars == <<fs, handlers, last>>

NoFiles == [n \in {} |-> <<>>]

Init ==
    /\ fs = NoFiles
    /\ handlers = {}
    /\ last = Exchange(NoRequest, NoPath, NoResponse)

\* A server that starts a second handler while one is running.
ServerFreeThreading ==
    Cardinality(handlers) < 2

\* HTTPServer.serve_forever handles one request at a time: the next request
\* is read only after the running handler has returned.
ServerFree ==
    handlers = {}

\* [f for f in os.listdir(PROMPTS_DIR) if f.endswith('.json')]
ListPrompts(files) ==
    {f \in ListDir(files) : EndsWith(f, DotJson)}

\* An open that creates the file but keeps what an existing file holds.
TruncateKeep(files, node) ==
    [n \in DOMAIN files \cup {node} |-> IF n \in DOMAIN files THEN files[n] ELSE <<>>]

\* The file system after node is created empty or truncated.
Truncate(files, node) ==
    [n \in DOMAIN files \cup {node} |-> IF n = node THEN <<>> ELSE files[n]]

\* The file system after payload is written at offset 0 of the open file
\* (an unlinked file is no longer reachable by name).
WriteAt(files, node, payload) ==
    IF node \in DOMAIN files
    THEN [files EXCEPT ![node] = payload \o SubSeq(@, Len(payload) + 1, Len(@))]
    ELSE files

\* os.remove(path) of a file.
Remove(files, node) ==
    [n \in DOMAIN files \ {node} |-> files[n]]

----------------------------------------------------------------------------
(* Handlers *)

\* do_OPTIONS
DoOptions(req) ==
    /\ ServerFree
    /\ req.method = "OPTIONS"
    /\ last' = Exchange(req, NoPath, EndHeaders(SendResponse(204)))
    /\ UNCHANGED <<fs, handlers>>

\* do_GET, the fallback to SimpleHTTPRequestHandler.do_GET
StaticGet(req) ==
    /\ ServerFree
    /\ req.method = "GET"
    /\ req.path \notin {"/list-prompts", "/check-prompt-exists"}
    /\ last' = Exchange(req, NoPath,
                        IF req.path \in StaticFiles
                        THEN SendBody("file bytes")
                        ELSE SendError(404, "File not found"))
    /\ UNCHANGED <<fs, handlers>>

\* do_GET -> handle_list_prompts
HandleListPrompts(req) ==
    /\ ServerFree
    /\ req.method = "GET"
    /\ req.path = "/list-prompts"
    /\ last' = Exchange(req, NoPath,
                        [SendBody("prompts") EXCEPT !.prompts = ListPrompts(fs)])
    /\ UNCHANGED <<fs, handlers>>

\* do_GET -> handle_check_prompt_exists
HandleCheckPromptExists(req) ==
    /\ ServerFree
    /\ req.method = "GET"
    /\ req.path = "/check-prompt-exists"
    /\ last' =
         IF Falsy(req.filename)
         THEN Exchange(req, NoPath, SendError(400, "Filename parameter is missing"))
         ELSE LET filepath == Join(PROMPTS_DIR, req.filename)
              IN  Exchange(req, filepath,
                           [SendBody("exists") EXCEPT !.exists = PathExists(fs, FilePathComps(req.filename))])
    /\ UNCHANGED <<fs, handlers>>

\* do_POST, the else branch
PostNotFound(req) ==
    /\ ServerFree
    /\ req.method = "POST"
    /\ req.path \notin {"/save-prompt", "/delete-prompt"}
    /\ last' = Exchange(req, NoPath, SendError(404, "Endpoint not found"))
    /\ UNCHANGED <<fs, handlers>>

\* do_POST -> handle_save_prompt, up to and including open(filepath, 'w')
HandleSavePrompt(req) ==
    /\ ServerFree
    /\ req.method = "POST"
    /\ req.path = "/save-prompt"
    /\ IF ~req.wellformed
       THEN /\ last' = Exchange(req, NoPath, SendError(500, "Error saving prompt"))
            /\ UNCHANGED <<fs, handlers>>
       ELSE IF Falsy(req.filename) \/ FalsyContent(req.content)
       THEN /\ last' = Exchange(req, NoPath, SendError(400, "Missing filename or content"))
            /\ UNCHANGED <<fs, handlers>>
       ELSE LET safe_filename == SaveTargetName(req.filename)
                filepath == Join(PROMPTS_DIR, safe_filename)
                node == OpenTarget(fs, FilePathComps(safe_filename))
            IN  IF ~HasJsonSuffix(safe_filename)
                THEN /\ last' = Exchange(req, NoPath,
                                         SendError(400, "Filename must end with .json"))
                     /\ UNCHANGED <<fs, handlers>>
                ELSE IF node = NoEnt
                THEN /\ last' = Exchange(req, filepath, SendError(500, "Error saving prompt"))
                     /\ UNCHANGED <<fs, handlers>>
                ELSE /\ node \in DOMAIN fs \/ Cardinality(DOMAIN fs) < MaxFiles
                     /\ fs' = Truncate(fs, node)
                     /\ handlers' = handlers \cup
                                      {[req |-> req, filepath |-> filepath, fd |-> node]}
                     /\ last' = Exchange(req, filepath, NoResponse)

\* handle_save_prompt from json.dump to the response: the buffered payload is
\* written when the with block closes the file.
SavePromptWrite(h) ==
    /\ h \in handlers
    /\ fs' = WriteAt(fs, h.fd, JsonDump(h.req.content))
    /\ handlers' = handlers \ {h}
    /\ last' = Exchange(h.req, h.filepath, SendBody("Prompt saved successfully."))

\* do_POST -> handle_delete_prompt
HandleDeletePrompt(req) ==
    /\ ServerFree
    /\ req.method = "POST"
    /\ req.path = "/delete-prompt"
    /\ UNCHANGED handlers
    /\ IF ~req.wellformed
       THEN /\ last' = Exchange(req, NoPath, SendError(500, "Error deleting prompt"))
            /\ UNCHANGED fs
       ELSE IF Falsy(req.filename)
       THEN /\ last' = Exchange(req, NoPath, SendError(400, "Missing filename"))
            /\ UNCHANGED fs
       ELSE LET safe_filename == DeleteTargetName(req.filename)
                filepath == Join(PROMPTS_DIR, safe_filename)
                node == Lookup(fs, FilePathComps(safe_filename))
            IN  IF node = NoEnt
                THEN /\ last' = Exchange(req, filepath, SendError(404, "File not found"))
                     /\ UNCHANGED fs
                ELSE IF node \in DOMAIN fs
                THEN /\ fs' = Remove(fs, node)
                     /\ last' = Exchange(req, filepath, SendBody("Prompt deleted."))
                ELSE \* os.remove of a directory raises IsADirectoryError
                     /\ last' = Exchange(req, filepath, SendError(500, "Error deleting prompt"))
                     /\ UNCHANGED fs

Next ==
    \/ \E req \in OptionsRequests : DoOptions(req)
    \/ \E req \in StaticRequests : StaticGet(req)
    \/ \E req \in ListRequests : HandleListPrompts(req)
    \/ \E req \in CheckRequests : HandleCheckPromptExists(req)
    \/ \E req \in OtherPostRequests : PostNotFound(req)
    \/ \E req \in SaveRequests : HandleSavePrompt(req)
    \/ \E h \in handlers : SavePromptWrite(h)
    \/ \E req \in DeleteRequests : HandleDeletePrompt(req)

Spec == Init /\ [][Next]_vars

----------------------------------------------------------------------------
(* Vocabulary of the properties, stated independently of the handlers *)

\* The character set [A-Za-z0-9_.-] of the specification.
Whitelist ==
    Lower \cup Upper \cup {"0","1","2","3","4","5","6","7","8","9"} \cup {"_", ".", "-"}

RECURSIVE SanitizedFrom(_, _, _)
\* Reads s from position i: a "/" drops what was kept so far, a whitelisted
\* character is kept, any other character is dropped.
SanitizedFrom(s, i, kept) ==
    IF i > Len(s) THEN kept
    ELSE IF s[i] = "/" THEN SanitizedFrom(s, i + 1, <<>>)
    ELSE IF s[i] \in Whitelist THEN SanitizedFrom(s, i + 1, Append(kept, s[i]))
    ELSE SanitizedFrom(s, i + 1, kept)

\* The sanitized filename of the specification: the base name with every
\* character outside the whitelist removed.
SanitizedName(filename) ==
    SanitizedFrom(filename, 1, <<>>)

RECURSIVE Normalize(_, _)
\* The node a path names when resolved component by component without looking
\* at the file system, as os.path.realpath does for a path that may not exist.
Normalize(cur, comps) ==
    IF comps = <<>> THEN cur
    ELSE Normalize(Step(cur, Head(comps)), Tail(comps))

Resolve(path) ==
    Normalize(Root, Split(path))

\* Whether a node lies strictly inside the prompts directory.
StrictlyInside(node) ==
    /\ Len(node) > Len(PromptsNode)
    /\ SubSeq(node, 1, Len(PromptsNode)) = PromptsNode

\* The file a name denotes directly inside the prompts directory.
PromptFile(name) ==
    PromptsNode \o <<name>>

IsSave(x) ==
    x.req.method = "POST" /\ x.req.path = "/save-prompt"

IsDelete(x) ==
    x.req.method = "POST" /\ x.req.path = "/delete-prompt"

IsCheck(x) ==
    x.req.method = "GET" /\ x.req.path = "/check-prompt-exists"

IsList(x) ==
    x.req.method = "GET" /\ x.req.path = "/list-prompts"

\* The response of the exchange has been sent.
Answered(x) ==
    x.resp # NoResponse

Status(x) ==
    x.resp.status

----------------------------------------------------------------------------
(* Properties *)

\* C1: for every filename submitted to POST /save-prompt or POST
\* /delete-prompt, the target path the handler builds resolves strictly
\* inside the prompts directory: never the directory itself, its parent or a
\* path outside it.
C1_TargetStrictlyInside ==
    (last.req.method = "POST" /\ last.filepath # NoPath)
        => StrictlyInside(Resolve(last.filepath))

\* C2: once a save has answered 200, the saved (sanitized) filename is in the
\* list GET /list-prompts returns, until a delete of that file answers 200:
\* the save leaves the name listed, a listed name disappears only by a
\* successful delete of it, and the list response is the listing of the
\* directory.
C2_SaveThenList ==
    [][ /\ (IsSave(last') /\ Status(last') = 200)
            => SanitizedName(last'.req.filename) \in ListPrompts(fs')
        /\ \A n \in ListPrompts(fs) :
              n \notin ListPrompts(fs')
                  => /\ IsDelete(last')
                     /\ Status(last') = 200
                     /\ SanitizedName(last'.req.filename) = n
        /\ (IsList(last') /\ Answered(last'))
            => /\ Status(last') = 200
               /\ last'.resp.prompts = ListPrompts(fs')
      ]_vars

\* A list request answered with the name of a saved file.
C2_Witness ==
    /\ IsList(last)
    /\ Status(last) = 200
    /\ AJson \in last.resp.prompts

\* C3: after a successful save with raw filename F, GET /check-prompt-exists
\* with the same raw F answers exists: true only when F equals the sanitized
\* name under which the file was stored.
C3_ExistsOnlyForStoredName ==
    [][ ( /\ IsSave(last) /\ Status(last) = 200
          /\ IsCheck(last') /\ Answered(last')
          /\ last'.req.filename = last.req.filename
          /\ last'.resp.exists )
        => last.req.filename = SanitizedName(last.req.filename)
      ]_vars

\* C4: POST /delete-prompt with a non-empty filename whose sanitized target
\* names no existing prompt file answers 404, never 200, and leaves the
\* prompts directory unchanged.
C4_DeleteMissingIs404 ==
    [][ ( /\ IsDelete(last') /\ Answered(last')
          /\ last'.req.wellformed
          /\ ~Falsy(last'.req.filename)
          /\ PromptFile(SanitizedName(last'.req.filename)) \notin DOMAIN fs )
        => /\ Status(last') = 404
           /\ fs' = fs
      ]_vars

\* C5: a delete of filename F that follows a save of F answered 200 answers
\* 200 and removes the file the save created: the stored name is no longer
\* in the directory nor in the list GET /list-prompts returns.
C5_SaveDeleteList ==
    [][ ( /\ IsSave(last) /\ Status(last) = 200
          /\ IsDelete(last') /\ Answered(last')
          /\ last'.req.filename = last.req.filename )
        => /\ Status(last') = 200
           /\ SanitizedName(last.req.filename) \notin ListDir(fs')
           /\ SanitizedName(last.req.filename) \notin ListPrompts(fs')
           /\ PromptFile(SanitizedName(last.req.filename)) \in DOMAIN fs
      ]_vars

\* A delete answered 200 that emptied the directory.
C5_Witness ==
    /\ IsDelete(last)
    /\ Status(last) = 200
    /\ last.req.filename = SpecialsJson
    /\ ListPrompts(fs) = {}

\* C6: a save whose filename or content is missing or falsy, or whose
\* sanitized filename does not end in ".json", is answered 400; and a save
\* answered 400 leaves every file of the directory and its content as it was.
C6_RejectedSaveCreatesNothing ==
    [][ /\ ( /\ IsSave(last') /\ Answered(last')
             /\ last'.req.wellformed
             /\ \/ Falsy(last'.req.filename)
                \/ FalsyContent(last'.req.content)
                \/ ~EndsWith(SanitizedName(last'.req.filename), DotJson) )
            => Status(last') = 400
        /\ (IsSave(last') /\ Status(last') = 400) => fs' = fs
      ]_vars

\* The save of "notes" rejected with 400 while the directory holds a file.
C6_Witness ==
    /\ IsSave(last)
    /\ last.req.filename = Notes
    /\ ~FalsyContent(last.req.content)
    /\ Status(last) = 400
    /\ DOMAIN fs # {}

\* C7: a save that is carried out stores the file under exactly the sanitized
\* filename (base name, characters outside the whitelist removed, the others
\* kept in order), directly in the prompts directory, and creates no other
\* file; "a b!@#.json" is stored as "ab.json".
C7_StoredName ==
    [][ /\ (DOMAIN fs' \ DOMAIN fs) # {}
            => /\ IsSave(last')
               /\ DOMAIN fs' \ DOMAIN fs = {PromptFile(SanitizedName(last'.req.filename))}
        /\ (IsSave(last') /\ Status(last') = 200)
            => /\ PromptFile(SanitizedName(last'.req.filename)) \in DOMAIN fs'
               /\ last'.req.filename = SpecialsJson => PromptFile(AbJson) \in DOMAIN fs'
      ]_vars

\* The save of "a b!@#.json" answered 200 with "ab.json" in the directory.
C7_Witness ==
    /\ IsSave(last)
    /\ last.req.filename = SpecialsJson
    /\ Status(last) = 200
    /\ ListDir(fs) = {AbJson}

\* C8: the server runs one handler at a time, and when a save has answered
\* 200 its file holds exactly the payload of that request; no file ever holds
\* a mix of payloads once the handler has returned.
C8_LastWriterWins ==
    /\ Cardinality(handlers) <= 1
    /\ (IsSave(last) /\ Status(last) = 200)
        => /\ PromptFile(SanitizedName(last.req.filename)) \in DOMAIN fs
           /\ fs[PromptFile(SanitizedName(last.req.filename))] = JsonDump(last.req.content)
    /\ handlers = {}
        => \A n \in DOMAIN fs :
              \E c \in ContentValues : ~FalsyContent(c) /\ fs[n] = JsonDump(c)

\* A save of content 7 has completed on "a.json".
C8_Witness ==
    /\ IsSave(last)
    /\ Status(last) = 200
    /\ last.req.content = 7
    /\ SanitizedName(last.req.filename) = AJson
    /\ handlers = {}
    /\ PromptFile(AJson) \in DOMAIN fs
    /\ fs[PromptFile(AJson)] = <<"7">>

\* C9: every response carries Access-Control-Allow-Origin: *, and every
\* OPTIONS request is answered 204 with an empty body.
C9_CorsEverywhere ==
    /\ Answered(last) => last.resp.cors
    /\ (last.req.method = "OPTIONS")
        => /\ Answered(last)
           /\ Status(last) = 204
           /\ last.resp.body = ""

\* An error response of an API endpoint, carrying the header.
C9_Witness ==
    /\ Status(last) = 500
    /\ IsDelete(last)
    /\ last.resp.cors

\* Every file lies directly in the prompts directory under a name of
\* whitelisted characters ending in ".json", and the listing names them all.
DirectoryWellFormed(files) ==
    /\ \A node \in DOMAIN files :
          /\ node \notin Dirs
          /\ Parent(node) = PromptsNode
          /\ \A i \in 1..Len(node[Len(node)]) : node[Len(node)][i] \in Whitelist
          /\ EndsWith(node[Len(node)], DotJson)
    /\ ListPrompts(files) = {node[Len(node)] : node \in DOMAIN files}

\* C10: starting from an empty prompts directory, every file lies directly in
\* the directory under a name of whitelisted characters ending in ".json";
\* GET /list-prompts lists exactly the files of the directory; and a file's
\* content changes only by a save to its name, whose completion leaves the
\* content of that save.
C10_DirectoryInvariant ==
    /\ DirectoryWellFormed(fs)
    /\ [][ fs' # fs =>
             /\ DirectoryWellFormed(fs')
             /\ \A node \in DOMAIN fs' :
                   \/ node \in DOMAIN fs /\ fs'[node] = fs[node]
                   \/ /\ IsSave(last')
                      /\ node = PromptFile(SanitizedName(last'.req.filename))
                      /\ IF Answered(last')
                         THEN Status(last') = 200 /\ fs'[node] = JsonDump(last'.req.content)
                         ELSE fs'[node] = <<>>
         ]_vars

\* A directory in which a file has been overwritten: it holds 12 after a
\* save that completed on an existing file.
C10_Witness ==
    /\ handlers = {}
    /\ IsSave(last)
    /\ Status(last) = 200
    /\ \E node \in DOMAIN fs : fs[node] = <<"1","2">>

====
